---- MODULE Spec2Model ----
(***************************************************************************)
(* Model of benchmarks/run_all_benchmarks.py: the module import guard and  *)
(* main() as one sequential process whose position is pc.  Every call main *)
(* makes is one step (torch_matmul_bench is split at its kernel launches,  *)
(* barriers and clock reads).  The host (installed packages, accelerator   *)
(* availability, command line) is chosen in Init; the outcome of each call *)
(* into the runtime or the OS (success, raised exception, elapsed ticks)   *)
(* is chosen when the call is made.                                        *)
(*                                                                         *)
(* Time: clock counts nanoseconds, so for an elapsed time t in seconds the *)
(* product t * 1e9 of the source is the tick difference end - start.  The  *)
(* program first reads the clock at the first trial's start, and only      *)
(* differences of readings are used: the clock's origin is that reading,   *)
(* and the time the steps before it take is not counted.                   *)
(* Optional values: None is the empty sequence <<>>, a value v is <<v>>.   *)
(***************************************************************************)
EXTENDS Integers, Sequences, FiniteSets, TLC

\* ------------------------------------------------------------------ bounds

\* Largest --size and --runs tried (the smallest tried is -1).
MaxSize == 1
MaxRuns == 2
\* Largest number of clock ticks a multiplication and its barrier take.
MaxElapsed == 2
\* Largest torch.cuda.device_count().
MaxGpus == 2
\* The wall clock (UTC, in seconds) when the first process starts, and the
\* most seconds that pass while processes run.
UtcStart == 58
MaxTicks == 1
\* Most invocations of the program, one after the other.
MaxInvocations == 2

\* ------------------------------------------------------- program constants

\* range(2): the number of warm-up multiplications.
WarmupCount == 2
\* sys.exit(1) of the import guard; also the interpreter's exit code for an
\* uncaught exception.
FatalExitCode == 1

\* "%M-%S" of strftime: the seconds of a minute.
SecondsPerMinute == 60

\* The diagnostic of the import guard.
FatalLine == "[FATAL] PyTorch is not installed"

\* choices=[...] of --device.
DeviceChoices == {"auto", "cuda", "mps", "cpu"}

\* Command-line device names tried: the choices and two names argparse rejects.
DeviceNames == DeviceChoices \cup {"CUDA", "tpu"}

\* str.lower() on the device names tried.
Lower(s) == IF s = "CUDA" THEN "cuda" ELSE s

\* Devices whose kernels are queued and run asynchronously to the host.
IsAsync(dev) == dev \in {"cuda", "mps"}

VARIABLES
    env,        \* the host: what is installed and which accelerators exist
    argv,       \* the command line: [device, size, runs]
    pc,         \* position of the process
    psutil,     \* TRUE: the psutil module; FALSE: psutil = None
    args,       \* parsed arguments, None before parse_args
    dirCreated, \* ensure_dir(args.outdir) has run
    stamp,      \* ts(), None before it is taken
    snap,       \* SystemSnapshot, None before get_system_snapshot returns
    device,     \* torch.device chosen by pick_device, "" before
    allocated,  \* the buffers a and b exist
    warmups,    \* warm-up multiplications launched
    r,          \* index of the timed trial
    clock,      \* host clock
    start,      \* start = time.time() of the current trial
    queued,     \* kernels launched on the device and not yet waited for
    times,      \* times: List[float]
    gfs,        \* gfs: List[float]
    summary,    \* BenchSummary, None before torch_matmul_bench returns
    mem,        \* gpu_memory_stats(), None before
    bench_runs, \* List[BenchRun]
    report,     \* the report dict, None before it is composed
    files,      \* the files under outdir: path -> content
    stdout,     \* lines printed to standard output
    stderr,     \* lines printed to standard error
    exitCode,   \* exit code of the process, -1 while it runs
    exc,        \* the uncaught exception that ended the process
    utc,        \* the wall clock: UTC seconds
    stampSec,   \* the datetime.utcnow() that ts() formatted, None before
    history,    \* the earlier invocations: ts() reading, stamp, files left
    audit_pc,     \* system_audit_installer.py: position of the process
    audit_rows,   \* rows: List[List[str]] of main
    invoked,      \* the collectors called so far, in call order
    out_file,     \* content of system_audit.csv, None while not written
    audit_stdout, \* lines system_audit_installer.py printed
    audit_exit,   \* its exit code, -1 while it runs
    audit_exc     \* where the exception that reached __main__ was raised

hostVars == <<env, argv>>
ioVars == <<files, stdout, stderr>>
benchVars == <<allocated, warmups, r, clock, start, queued, times, gfs, summary>>
reportVars == <<mem, bench_runs, report>>
wallVars == <<utc, stampSec, history>>
auditVars == <<audit_pc, audit_rows, invoked, out_file, audit_stdout, audit_exit,
               audit_exc>>
runVars == <<env, argv, pc, psutil, args, dirCreated, stamp, snap, device,
             allocated, warmups, r, clock, start, queued, times, gfs, summary,
             mem, bench_runs, report, files, stdout, stderr, exitCode, exc,
             utc, stampSec, history>>
vars == <<runVars, auditVars>>

NoExc == [type |-> "", at |-> ""]

\* ---------------------------------------------------------------- helpers

\* Optional values.
None == <<>>
Some(v) == <<v>>
IsSome(o) == Len(o) = 1
Get(o) == o[1]

RECURSIVE GCD(_, _)
GCD(a, b) == IF b = 0 THEN a ELSE GCD(b, a % b)

\* The quotient n / d (d > 0, n >= 0) as a fraction in lowest terms.
Rat(n, d) ==
    LET g == GCD(n, d)
    IN [num |-> n \div g, den |-> d \div g]

RatAdd(x, y) == Rat(x.num * y.den + y.num * x.den, x.den * y.den)
RatLess(x, y) == x.num * y.den < y.num * x.den

\* sum(xs): left fold from 0.
RECURSIVE SeqSum(_)
SeqSum(xs) ==
    IF xs = <<>> THEN 0 ELSE SeqSum(SubSeq(xs, 1, Len(xs) - 1)) + xs[Len(xs)]

\* sum(gfs) over throughputs.
RECURSIVE RatSum(_)
RatSum(xs) ==
    IF xs = <<>> THEN Rat(0, 1)
    ELSE RatAdd(RatSum(SubSeq(xs, 1, Len(xs) - 1)), xs[Len(xs)])

\* A mutant of SeqMin: the first sample instead of the smallest.
SeqMinFirst(xs) == xs[1]

\* min(xs) of a non-empty list: the first smallest item.
RECURSIVE SeqMin(_)
SeqMin(xs) ==
    IF Len(xs) = 1 THEN xs[1]
    ELSE LET m == SeqMin(SubSeq(xs, 1, Len(xs) - 1))
         IN IF xs[Len(xs)] < m THEN xs[Len(xs)] ELSE m

\* max(xs) of a non-empty list of throughputs.
RECURSIVE RatMax(_)
RatMax(xs) ==
    IF Len(xs) = 1 THEN xs[1]
    ELSE LET m == RatMax(SubSeq(xs, 1, Len(xs) - 1))
         IN IF RatLess(m, xs[Len(xs)]) THEN xs[Len(xs)] ELSE m

\* ------------------------------------------------------------------- Init

Hosts ==
    { h \in [torch : BOOLEAN, psutil : BOOLEAN, cuda : BOOLEAN,
             mpsBackend : BOOLEAN, mps : BOOLEAN, cudaCount : 0..MaxGpus] :
        /\ h.mps => h.mpsBackend
        /\ h.cuda <=> h.cudaCount > 0 }

Init ==
    /\ env \in Hosts
    /\ argv \in [device : DeviceNames, size : -1..MaxSize, runs : -1..MaxRuns]
    /\ pc = "import_torch"
    /\ psutil = FALSE
    /\ args = None
    /\ dirCreated = FALSE
    /\ stamp = None
    /\ snap = None
    /\ device = ""
    /\ allocated = FALSE
    /\ warmups = 0
    /\ r = 0
    /\ clock = 0
    /\ start = 0
    /\ queued = 0
    /\ times = <<>>
    /\ gfs = <<>>
    /\ summary = None
    /\ mem = None
    /\ bench_runs = <<>>
    /\ report = None
    /\ files = <<>>
    /\ stdout = <<>>
    /\ stderr = <<>>
    /\ exitCode = -1
    /\ exc = NoExc
    /\ utc = UtcStart
    /\ stampSec = None
    /\ history = <<>>
    /\ audit_pc = "collect_basic"
    /\ audit_rows = <<>>
    /\ invoked = <<>>
    /\ out_file = None
    /\ audit_stdout = <<>>
    /\ audit_exit = -1
    /\ audit_exc = ""

\* ------------------------------------------------------ ending the process

\* A mutant of Raise: the exception is swallowed and main carries on to its
\* file-writing step.
RaiseSwallowed(type, at) ==
    /\ pc' = "write_json"
    /\ exc' = exc
    /\ exitCode' = exitCode
    /\ stderr' = stderr

\* An exception nothing catches: it propagates out of main, the interpreter
\* prints the traceback to standard error and exits with code 1.
Raise(type, at) ==
    /\ pc' = "exited"
    /\ exc' = [type |-> type, at |-> at]
    /\ exitCode' = FatalExitCode
    /\ stderr' = Append(stderr, "Traceback")

\* ---------------------------------------------------- module import guard

\* A mutant of ImportTorchFailed: the diagnostic is printed and the exit is
\* missing.
ImportTorchFailedNoExit ==
    /\ stdout' = Append(stdout, FatalLine)
    /\ pc' = "import_psutil"
    /\ UNCHANGED <<exitCode, stderr>>

\* except Exception: print("[FATAL] ...", e); sys.exit(1)
ImportTorchFailed ==
    /\ stdout' = Append(stdout, FatalLine)
    /\ exitCode' = FatalExitCode
    /\ pc' = "exited"
    /\ UNCHANGED stderr

\* try: import torch
ImportTorch ==
    /\ pc = "import_torch"
    /\ IF env.torch
         THEN pc' = "import_psutil" /\ UNCHANGED <<stdout, stderr, exitCode>>
         ELSE ImportTorchFailed
    /\ UNCHANGED <<hostVars, auditVars, wallVars, psutil, args, dirCreated, stamp, snap, device,
                   benchVars, reportVars, files, exc>>

\* try: import psutil / except: print("[WARN] ..."); psutil = None
ImportPsutil ==
    /\ pc = "import_psutil"
    /\ psutil' = env.psutil
    /\ stdout' = IF env.psutil THEN stdout
                 ELSE Append(stdout, "[WARN] psutil not available")
    /\ pc' = "parse_args"
    /\ UNCHANGED <<hostVars, auditVars, wallVars, args, dirCreated, stamp, snap, device, benchVars,
                   reportVars, files, stderr, exitCode, exc>>

\* ------------------------------------------------------------------- main

\* ap.parse_args(): a --device outside the choices makes argparse print its
\* usage error to standard error and exit with code 2; --size and --runs are
\* type=int and take any integer.
ParseArgs ==
    /\ pc = "parse_args"
    /\ IF argv.device \in DeviceChoices
         THEN /\ args' = Some(argv)
              /\ pc' = "ensure_dir"
              /\ UNCHANGED <<stderr, exitCode>>
         ELSE /\ stderr' = Append(stderr, "error: argument --device: invalid choice")
              /\ exitCode' = 2
              /\ pc' = "exited"
              /\ UNCHANGED args
    /\ UNCHANGED <<hostVars, auditVars, wallVars, psutil, dirCreated, stamp, snap, device, benchVars,
                   reportVars, files, stdout, exc>>

\* ensure_dir(args.outdir): os.makedirs(p, exist_ok=True)
EnsureDir ==
    /\ pc = "ensure_dir"
    /\ \E ok \in BOOLEAN :
         IF ok
           THEN /\ dirCreated' = TRUE
                /\ pc' = "stamp"
                /\ UNCHANGED <<stderr, exitCode, exc>>
           ELSE /\ Raise("OSError", "makedirs")
                /\ UNCHANGED dirCreated
    /\ UNCHANGED <<hostVars, auditVars, wallVars, psutil, args, stamp, snap, device, benchVars,
                   reportVars, files, stdout>>

\* A mutant of ts: minute precision, "%Y-%m-%dT%H-%MZ".
ts_minutes(now) == <<now \div SecondsPerMinute, 0>>

\* ts(): datetime.utcnow().strftime("%Y-%m-%dT%H-%M-%SZ") of the reading now;
\* the token is the fields down to the minute, and the second of the minute.
ts(now) == <<now \div SecondsPerMinute, now % SecondsPerMinute>>

\* stamp = ts()
Stamp ==
    /\ pc = "stamp"
    /\ stampSec' = Some(utc)
    /\ stamp' = Some(ts(utc))
    /\ pc' = "snapshot"
    /\ UNCHANGED <<hostVars, auditVars, utc, history, psutil, args, dirCreated, snap,
                   device, benchVars, reportVars, ioVars, exitCode, exc>>

\* A second of wall-clock time passes while the process runs, its stamp taken.
Tick ==
    /\ IsSome(stamp)
    /\ pc \notin {"done", "exited"}
    /\ utc < UtcStart + MaxTicks
    /\ utc' = utc + 1
    /\ UNCHANGED <<hostVars, auditVars, stampSec, history, pc, psutil, args, dirCreated,
                   stamp, snap, device, benchVars, reportVars, ioVars,
                   exitCode, exc>>

\* ----------------------------------------------------------------- probes

CudaInfo == [name |-> "cuda device", memory_gb |-> Some("gb"), capability |-> Some("major.minor")]
MpsInfo == [name |-> "Apple MPS (Metal)", memory_gb |-> None, capability |-> None]
ErrorInfo == [name |-> "<error", memory_gb |-> None, capability |-> None]

\* hasattr(torch.backends, "mps") and torch.backends.mps.is_available()
MpsUsable == env.mpsBackend /\ env.mps

\* A mutant of GetGpus: the MPS branch is an "if", not an "elif".
GetGpusMpsToo(failAt) ==
    (IF env.cuda
       THEN [i \in 1..failAt |-> CudaInfo]
            \o (IF failAt < env.cudaCount THEN <<ErrorInfo>> ELSE <<>>)
       ELSE <<>>)
    \o (IF MpsUsable THEN <<MpsInfo>> ELSE <<>>)

\* get_gpus(): failAt is the index whose get_device_properties raises
\* (env.cudaCount: none does); the except branch appends the error entry to
\* what was collected.
GetGpus(failAt) ==
    IF env.cuda
      THEN [i \in 1..failAt |-> CudaInfo]
           \o (IF failAt < env.cudaCount THEN <<ErrorInfo>> ELSE <<>>)
      ELSE IF MpsUsable THEN <<MpsInfo>> ELSE <<>>

\* get_system_snapshot(): the psutil queries are guarded by "if psutil" and by
\* try/except; the arguments of SystemSnapshot(...) are evaluated unguarded,
\* and torch.backends.mps is read before getattr can supply its default.
Snapshot ==
    /\ pc = "snapshot"
    /\ IF ~env.mpsBackend
         THEN /\ Raise("AttributeError", "mps_available")
              /\ UNCHANGED snap
         ELSE /\ \E vmOk \in {b \in BOOLEAN : psutil \/ ~b},
                    cpuOk \in {b \in BOOLEAN : psutil \/ ~b},
                    failAt \in 0..env.cudaCount :
                    snap' = Some([
                        timestamp |-> "utcnow",
                        os |-> "system",
                        os_release |-> "release",
                        arch |-> "machine",
                        python |-> "version",
                        torch |-> "version",
                        cuda_available |-> env.cuda,
                        mps_available |-> env.mps,
                        cuda_version |-> IF env.cuda THEN Some("cuda") ELSE None,
                        cpu_logical |-> IF cpuOk THEN Some("count") ELSE None,
                        cpu_physical |-> IF cpuOk THEN Some("count") ELSE None,
                        ram_total_gb |-> IF vmOk THEN Some("gb") ELSE None,
                        ram_available_gb |-> IF vmOk THEN Some("gb") ELSE None,
                        gpus |-> GetGpus(failAt)])
              /\ pc' = "pick_device"
              /\ UNCHANGED <<stderr, exitCode, exc>>
    /\ UNCHANGED <<hostVars, auditVars, wallVars, psutil, args, dirCreated, stamp, device, benchVars,
                   reportVars, files, stdout>>

\* A mutant of pick_device: MPS is preferred to CUDA.
pick_device_mps_first(pref) ==
    IF Lower(pref) # "auto" THEN Lower(pref)
    ELSE IF MpsUsable THEN "mps"
    ELSE IF env.cuda THEN "cuda"
    ELSE "cpu"

\* pick_device(pref): the type of the torch.device returned.
pick_device(pref) ==
    IF Lower(pref) # "auto" THEN Lower(pref)
    ELSE IF env.cuda THEN "cuda"
    ELSE IF MpsUsable THEN "mps"
    ELSE "cpu"

\* device = pick_device(args.device)
PickDevice ==
    /\ pc = "pick_device"
    /\ device' = pick_device(Get(args).device)
    /\ pc' = "alloc"
    /\ UNCHANGED <<hostVars, auditVars, wallVars, psutil, args, dirCreated, stamp, snap, benchVars,
                   reportVars, ioVars, exitCode, exc>>

\* ----------------------------------------------------- torch_matmul_bench

\* Whether torch.randn can place a buffer on the device at all.
DeviceUsable(dev) ==
    CASE dev = "cuda" -> env.cuda
      [] dev = "mps" -> MpsUsable
      [] OTHER -> TRUE

\* if device.type == "cuda": torch.cuda.synchronize()
Synchronizes(dev) == dev = "cuda"

\* The kernels queued after `_ = a @ b` and the conditional barrier that
\* follows it: a launch on an asynchronous device returns with the kernel
\* queued, the barrier waits for every queued kernel.
AfterMatmul(dev, q) ==
    IF Synchronizes(dev) THEN 0
    ELSE IF IsAsync(dev) THEN q + 1
    ELSE q

\* A mutant of LoopMore: one iteration too many.
LoopMoreOffByOne(i, n) == i <= n

\* for i in range(n): whether an iteration with index i runs.
LoopMore(i, n) == i < n

\* The throughput 2 * size^3 / (t * 1e9) of a trial of t ticks.
Gflops(size, t) == Rat(2 * size * size * size, t)

\* a = torch.randn((size, size), device=device); b = ...
\* A negative dimension or a device that is not there raises; any other
\* allocation of a non-empty buffer may run out of memory.
Alloc ==
    /\ pc = "alloc"
    /\ \E ok \in BOOLEAN :
         IF /\ Get(args).size >= 0
            /\ DeviceUsable(device)
            /\ (ok \/ Get(args).size = 0)
           THEN /\ allocated' = TRUE
                /\ pc' = "warmup"
                /\ UNCHANGED <<stderr, exitCode, exc>>
           ELSE /\ Raise("RuntimeError", "alloc")
                /\ UNCHANGED allocated
    /\ UNCHANGED <<hostVars, auditVars, wallVars, psutil, args, dirCreated, stamp, snap, device,
                   warmups, r, clock, start, queued, times, gfs, summary,
                   reportVars, files, stdout>>

\* One iteration of the warm-up loop: _ = a @ b, then the conditional barrier.
Warmup ==
    /\ pc = "warmup"
    /\ \E ok \in BOOLEAN :
         IF ok
           THEN /\ warmups' = warmups + 1
                /\ queued' = AfterMatmul(device, queued)
                /\ pc' = IF LoopMore(warmups + 1, WarmupCount) THEN "warmup"
                         ELSE IF LoopMore(0, Get(args).runs) THEN "trial_start"
                         ELSE "summarize"
                /\ UNCHANGED <<stderr, exitCode, exc>>
           ELSE /\ Raise("RuntimeError", "matmul")
                /\ UNCHANGED <<warmups, queued>>
    /\ UNCHANGED <<hostVars, auditVars, wallVars, psutil, args, dirCreated, stamp, snap, device,
                   allocated, r, clock, start, times, gfs, summary, reportVars,
                   files, stdout>>

\* start = time.time()
TrialStart ==
    /\ pc = "trial_start"
    /\ start' = clock
    /\ pc' = "trial_matmul"
    /\ UNCHANGED <<hostVars, auditVars, wallVars, psutil, args, dirCreated, stamp, snap, device,
                   allocated, warmups, r, clock, queued, times, gfs, summary,
                   reportVars, ioVars, exitCode, exc>>

\* _ = a @ b, then the conditional barrier, of a timed trial.
TrialMatmul ==
    /\ pc = "trial_matmul"
    /\ \E ok \in BOOLEAN, d \in 0..MaxElapsed :
         IF ok
           THEN /\ clock' = clock + d
                /\ queued' = AfterMatmul(device, queued)
                /\ pc' = "trial_end"
                /\ UNCHANGED <<stderr, exitCode, exc>>
           ELSE /\ Raise("RuntimeError", "matmul")
                /\ UNCHANGED <<clock, queued>>
    /\ UNCHANGED <<hostVars, auditVars, wallVars, psutil, args, dirCreated, stamp, snap, device,
                   allocated, warmups, r, start, times, gfs, summary,
                   reportVars, files, stdout>>

\* end = time.time(); t = end - start; gflops = (2 * size**3) / (t * 1e9);
\* times.append(t); gfs.append(gflops).  The division raises when t is 0.
TrialEnd ==
    /\ pc = "trial_end"
    /\ LET t == clock - start
       IN IF t = 0
            THEN /\ Raise("ZeroDivisionError", "gflops")
                 /\ UNCHANGED <<r, times, gfs>>
            ELSE /\ times' = Append(times, t)
                 /\ gfs' = Append(gfs, Gflops(Get(args).size, t))
                 /\ r' = r + 1
                 /\ pc' = IF LoopMore(r + 1, Get(args).runs) THEN "trial_start"
                          ELSE "summarize"
                 /\ UNCHANGED <<stderr, exitCode, exc>>
    /\ UNCHANGED <<hostVars, auditVars, wallVars, psutil, args, dirCreated, stamp, snap, device,
                   allocated, warmups, clock, start, queued, summary,
                   reportVars, files, stdout>>

\* return BenchSummary(...): the keyword arguments are evaluated in order, and
\* sum(times)/len(times) raises on an empty list.
Summarize ==
    /\ pc = "summarize"
    /\ IF Len(times) = 0
         THEN /\ Raise("ZeroDivisionError", "time_avg_s")
              /\ UNCHANGED summary
         ELSE /\ summary' = Some([
                    device |-> device,
                    size |-> Get(args).size,
                    runs |-> Get(args).runs,
                    times_s |-> times,
                    gflops |-> gfs,
                    time_avg_s |-> Rat(SeqSum(times), Len(times)),
                    time_best_s |-> SeqMin(times),
                    gflops_avg |-> Rat(RatSum(gfs).num, RatSum(gfs).den * Len(gfs)),
                    gflops_best |-> RatMax(gfs)])
              /\ pc' = "memstats"
              /\ UNCHANGED <<stderr, exitCode, exc>>
    /\ UNCHANGED <<hostVars, auditVars, wallVars, psutil, args, dirCreated, stamp, snap, device,
                   allocated, warmups, r, clock, start, queued, times, gfs,
                   reportVars, files, stdout>>

\* ------------------------------------------------------- report and files

\* gpu_memory_stats(): torch.cuda.mem_get_info() is called unguarded.
MemStats ==
    /\ pc = "memstats"
    /\ \E ok \in BOOLEAN :
         IF env.cuda /\ ~ok
           THEN /\ Raise("RuntimeError", "mem_get_info")
                /\ UNCHANGED mem
           ELSE /\ mem' = Some([backend |-> IF env.cuda THEN "cuda"
                                            ELSE IF MpsUsable THEN "mps"
                                            ELSE "cpu"])
                /\ pc' = "compose"
                /\ UNCHANGED <<stderr, exitCode, exc>>
    /\ UNCHANGED <<hostVars, auditVars, wallVars, psutil, args, dirCreated, stamp, snap, device,
                   benchVars, bench_runs, report, files, stdout>>

\* A mutant of BenchRuns: the run index is left 0-based.
BenchRunsZeroBased(sm) ==
    [i \in 1..sm.runs |->
        [run_idx |-> i - 1, device |-> sm.device, size |-> sm.size,
         time_s |-> sm.times_s[i], gflops |-> sm.gflops[i]]]

\* bench_runs = [BenchRun(run_idx=i+1, ...) for i in range(summary.runs)]
BenchRuns(sm) ==
    [i \in 1..sm.runs |->
        [run_idx |-> i, device |-> sm.device, size |-> sm.size,
         time_s |-> sm.times_s[i], gflops |-> sm.gflops[i]]]

\* 4) compose report
Compose ==
    /\ pc = "compose"
    /\ bench_runs' = BenchRuns(Get(summary))
    /\ report' = Some([
            timestamp |-> "utcnow",
            system |-> Get(snap),
            memory |-> Get(mem),
            bench |-> [device |-> Get(summary).device,
                       size |-> Get(summary).size,
                       runs |-> Get(summary).runs,
                       time_avg_s |-> Get(summary).time_avg_s,
                       time_best_s |-> Get(summary).time_best_s,
                       gflops_avg |-> Get(summary).gflops_avg,
                       gflops_best |-> Get(summary).gflops_best,
                       per_run |-> BenchRuns(Get(summary))]])
    /\ pc' = "write_json"
    /\ UNCHANGED <<hostVars, auditVars, wallVars, psutil, args, dirCreated, stamp, snap, device,
                   benchVars, mem, ioVars, exitCode, exc>>

\* A mutant of Path: the token is taken anew for every path.
PathFreshStamp(suffix) == <<Some(ts(utc)), suffix>>

\* os.path.join(args.outdir, f"{stamp}_<suffix>")
Path(suffix) == <<stamp, suffix>>

\* open(path, "w") and the write: the file at path holds content.
WriteFile(path, content) ==
    files' = [p \in DOMAIN files \cup {path} |->
                 IF p = path THEN content ELSE files[p]]

\* One of the three writes of step 5: it may raise OSError.
WriteStep(at, suffix, content, next) ==
    /\ \E ok \in BOOLEAN :
         IF ok
           THEN /\ WriteFile(Path(suffix), content)
                /\ pc' = next
                /\ UNCHANGED <<stderr, exitCode, exc>>
           ELSE /\ Raise("OSError", at)
                /\ UNCHANGED files
    /\ UNCHANGED <<hostVars, auditVars, wallVars, psutil, args, dirCreated, stamp, snap, device,
                   benchVars, reportVars, stdout>>

\* write_json(json_path, report, pretty=args.pretty)
WriteJson ==
    /\ pc = "write_json"
    /\ WriteStep("write_json", "_summary.json", <<"json", report>>, "write_bench_csv")

\* csv.DictWriter.writerow(d): the values of d in the order of fieldnames.
DictRow(fieldnames, d) == [i \in DOMAIN fieldnames |-> d[fieldnames[i]]]

\* fieldnames of write_bench_csv.
BenchFieldnames == <<"run_idx", "device", "size", "time_s", "gflops">>

\* The lines of write_bench_csv: w.writeheader(), then w.writerow(asdict(r))
\* for r in runs.
BenchCsv(runs) ==
    <<"csv", BenchFieldnames,
      [i \in DOMAIN runs |-> DictRow(BenchFieldnames, runs[i])]>>

\* write_bench_csv(csv_bench_path, bench_runs)
WriteBenchCsv ==
    /\ pc = "write_bench_csv"
    /\ WriteStep("write_bench_csv", "_bench.csv", BenchCsv(bench_runs), "write_system_csv")

\* The fields of SystemSnapshot and of GPUInfo, in the order asdict gives them.
SnapshotFields ==
    <<"timestamp", "os", "os_release", "arch", "python", "torch",
      "cuda_available", "mps_available", "cuda_version", "cpu_logical",
      "cpu_physical", "ram_total_gb", "ram_available_gb", "gpus">>
GpuFields == <<"name", "memory_gb", "capability">>

\* A mutant of GpuKey: the positional index is missing from the key.
GpuKeyNoIndex(idx, gk) == <<"gpu", 0, gk>>

\* f"gpu[{idx}].{gk}": the key of field gk of the entry at position idx; the
\* key of a scalar field k is <<k>>.
GpuKey(idx, gk) == <<"gpu", idx, gk>>

\* for gk, gv in g.items(): rows.append({"key": f"gpu[{idx}].{gk}", "value": gv})
GpuEntryRows(idx, g) ==
    [j \in DOMAIN GpuFields |->
        [key |-> GpuKey(idx, GpuFields[j]), value |-> g[GpuFields[j]]]]

\* for idx, g in enumerate(v): the rows of the first n entries.
RECURSIVE GpuRows(_, _)
GpuRows(gpus, n) ==
    IF n = 0 THEN <<>>
    ELSE GpuRows(gpus, n - 1) \o GpuEntryRows(n - 1, gpus[n])

\* for k, v in d.items(): the rows of the first n fields of the snapshot d.
RECURSIVE FlattenRows(_, _)
FlattenRows(d, n) ==
    IF n = 0 THEN <<>>
    ELSE LET k == SnapshotFields[n]
         IN FlattenRows(d, n - 1)
            \o (IF k = "gpus" THEN GpuRows(d[k], Len(d[k]))
                ELSE <<[key |-> <<k>>, value |-> d[k]]>>)

\* The lines of write_system_csv: the header, then the flattened rows.
SystemCsv(sn) ==
    <<"csv", <<"key", "value">>, FlattenRows(Get(sn), Len(SnapshotFields))>>

\* write_system_csv(csv_sys_path, snap)
WriteSystemCsv ==
    /\ pc = "write_system_csv"
    /\ WriteStep("write_system_csv", "_system.csv", SystemCsv(snap), "print_summary")

\* 6) stdout summary; main returns and the process exits with code 0.
PrintSummary ==
    /\ pc = "print_summary"
    /\ stdout' = Append(stdout, "=== Benchmark Summary ===")
    /\ exitCode' = 0
    /\ pc' = "done"
    /\ UNCHANGED <<hostVars, auditVars, wallVars, psutil, args, dirCreated, stamp, snap, device,
                   benchVars, reportVars, files, stderr, exc>>

\* ----------------------------------------------------------- specification

Next ==
    \/ ImportTorch
    \/ ImportPsutil
    \/ ParseArgs
    \/ EnsureDir
    \/ Stamp
    \/ Snapshot
    \/ PickDevice
    \/ Alloc
    \/ Warmup
    \/ TrialStart
    \/ TrialMatmul
    \/ TrialEnd
    \/ Summarize
    \/ MemStats
    \/ Compose
    \/ WriteJson
    \/ WriteBenchCsv
    \/ WriteSystemCsv
    \/ PrintSummary
    \/ Tick

Spec == Init /\ [][Next]_vars

\* ------------------------------------------------- consecutive invocations

\* python run_all_benchmarks.py is run again once the process has ended: a
\* fresh process on the same host, with the files the earlier ones left, at
\* the wall-clock time reached.
Restart ==
    /\ pc \in {"done", "exited"}
    /\ Len(history) + 1 < MaxInvocations
    /\ history' = Append(history, [sec |-> stampSec, stamp |-> stamp,
                                   paths |-> DOMAIN files])
    /\ pc' = "import_torch"
    /\ psutil' = FALSE
    /\ args' = None
    /\ dirCreated' = FALSE
    /\ stamp' = None
    /\ stampSec' = None
    /\ snap' = None
    /\ device' = ""
    /\ allocated' = FALSE
    /\ warmups' = 0
    /\ r' = 0
    /\ clock' = 0
    /\ start' = 0
    /\ queued' = 0
    /\ times' = <<>>
    /\ gfs' = <<>>
    /\ summary' = None
    /\ mem' = None
    /\ bench_runs' = <<>>
    /\ report' = None
    /\ stdout' = <<>>
    /\ stderr' = <<>>
    /\ exitCode' = -1
    /\ exc' = NoExc
    /\ UNCHANGED <<hostVars, auditVars, files, utc>>

\* The invocations are followed on one host without accelerator, for one
\* command line.
RunsInit ==
    /\ Init
    /\ env = [torch |-> TRUE, psutil |-> TRUE, cuda |-> FALSE,
              mpsBackend |-> TRUE, mps |-> FALSE, cudaCount |-> 0]
    /\ argv = [device |-> "auto", size |-> 1, runs |-> 1]

RunsNext ==
    \/ Next
    \/ Restart

RunsSpec == RunsInit /\ [][RunsNext]_vars

\* ------------------------------------------------ system_audit_installer.py

MaxRows == 1

AuditFatalExitCode == 1

Header == <<"category", "key", "name", "value", "unit", "extra">>

\* main calls the collectors in this order.
Collectors == <<"collect_basic", "collect_cpu", "collect_memory",
                "collect_disks", "collect_gpu", "collect_net",
                "collect_processes", "collect_drivers", "collect_software",
                "collect_power_battery", "collect_sensors">>

\* The collectors whose body is one try block, with the category of their
\* rows and the key and name of the row their except clause adds.
Guarded ==
    [collect_cpu |-> <<"cpu", "cpu", "CPU Collector Error">>,
     collect_memory |-> <<"memory", "memory", "Memory Collector Error">>,
     collect_disks |-> <<"disk", "disks", "Disk Collector Error">>,
     collect_gpu |-> <<"gpu", "gpu", "GPU Collector Error">>,
     collect_net |-> <<"net", "net", "Network Collector Error">>,
     collect_processes |-> <<"proc", "proc", "Process Collector Error">>,
     collect_drivers |-> <<"drivers", "drivers", "Drivers Collector Error">>,
     collect_software |-> <<"software", "software", "Software Collector Error">>,
     collect_power_battery |-> <<"power", "power", "Power Collector Error">>,
     collect_sensors |-> <<"sensors", "sensors", "Sensors Collector Error">>]

\* rows.append([category, key, name, str(value), unit, extra]); unit and extra
\* are left at their default.
add(rws, category, key, name, value) ==
    Append(rws, <<category, key, name, value, "", "">>)

\* The rows of collect_basic; the values are the host's.
BasicRows ==
    << <<"meta", "timestamp", "UTC Timestamp", "", "", "">>,
       <<"meta", "hostname", "Hostname", "", "", "">>,
       <<"meta", "fqdn", "FQDN", "", "", "">>,
       <<"os", "system", "OS", "", "", "">>,
       <<"os", "release", "OS Release", "", "", "">>,
       <<"os", "version", "OS Version", "", "", "">>,
       <<"os", "kernel", "Kernel", "", "", "">>,
       <<"python", "python", "Python", "", "", "">> >>

\* The first n rows a guarded collector adds.
RECURSIVE DataRows(_, _, _)
DataRows(rws, c, n) ==
    IF n = 0 THEN rws
    ELSE add(DataRows(rws, c, n - 1), Guarded[c][1], Guarded[c][2], "",
             ToString(n))

\* What main does after the collector c returned.
AfterCollector(c) ==
    LET i == CHOOSE j \in DOMAIN Collectors : Collectors[j] = c
    IN  IF i < Len(Collectors) THEN Collectors[i + 1] ELSE "write"

\* An exception leaves main: __main__ prints it and exits.
Fatal(at) ==
    /\ audit_exc' = at
    /\ audit_stdout' = Append(audit_stdout, "[fatal]")
    /\ audit_exit' = AuditFatalExitCode
    /\ audit_pc' = "exited"

\* collect_basic has no try block: the query of row n + 1 may raise, after n
\* rows were added, and the exception leaves main.
CollectBasic ==
    /\ audit_pc = "collect_basic"
    /\ invoked' = Append(invoked, "collect_basic")
    /\ \E n \in 1..Len(BasicRows) :
          /\ audit_rows' = audit_rows \o SubSeq(BasicRows, 1, n)
          /\ IF n = Len(BasicRows)
                THEN /\ audit_pc' = AfterCollector("collect_basic")
                     /\ UNCHANGED <<audit_stdout, audit_exit, audit_exc>>
                ELSE Fatal("collect_basic")
    /\ UNCHANGED <<runVars, out_file>>

\* A guarded collector adds its rows; a query or shell-out that raises after n
\* of them is caught and answered with an "error" row.
Collect ==
    /\ audit_pc \in DOMAIN Guarded
    /\ invoked' = Append(invoked, audit_pc)
    /\ \E ok \in BOOLEAN : \E n \in 0..MaxRows :
          IF ok
             THEN /\ n = MaxRows
                  /\ audit_rows' = DataRows(audit_rows, audit_pc, n)
             ELSE audit_rows' = add(DataRows(audit_rows, audit_pc, n), "error",
                              Guarded[audit_pc][2], Guarded[audit_pc][3], "e")
    /\ audit_pc' = AfterCollector(audit_pc)
    /\ UNCHANGED <<runVars, out_file, audit_stdout, audit_exit, audit_exc>>

\* with open(out_file, "w") ...: writerow(header); writerows(rows)
WriteCsv ==
    /\ audit_pc = "write"
    /\ \E ok \in BOOLEAN :
          IF ok
             THEN /\ out_file' = Some(<<Header, audit_rows>>)
                  /\ audit_pc' = "print"
                  /\ UNCHANGED <<audit_stdout, audit_exit, audit_exc>>
             ELSE /\ Fatal("open")
                  /\ UNCHANGED out_file
    /\ UNCHANGED <<runVars, audit_rows, invoked>>

PrintDone ==
    /\ audit_pc = "print"
    /\ audit_stdout' = audit_stdout \o <<"[done]", "Tip">>
    /\ audit_exit' = 0
    /\ audit_pc' = "done"
    /\ UNCHANGED <<runVars, audit_rows, invoked, out_file, audit_exc>>

AuditInit ==
    /\ Init
    /\ env = [torch |-> TRUE, psutil |-> TRUE, cuda |-> FALSE,
              mpsBackend |-> TRUE, mps |-> FALSE, cudaCount |-> 0]
    /\ argv = [device |-> "auto", size |-> 1, runs |-> 1]

AuditNext ==
    \/ CollectBasic
    \/ Collect
    \/ WriteCsv
    \/ PrintDone

AuditSpec == AuditInit /\ [][AuditNext]_vars

\* ------------------------------------------------------------- properties

Range(xs) == {xs[i] : i \in DOMAIN xs}
NoFiles == DOMAIN files = {}

\* The sum of the first n items of xs, taken from the front.
RECURSIVE SumFrom(_, _)
SumFrom(xs, i) == IF i > Len(xs) THEN 0 ELSE xs[i] + SumFrom(xs, i + 1)

\* C1: on every asynchronous device (cuda and mps alike) each warm-up and each
\* timed multiplication is followed by a barrier, so no kernel is still queued
\* once the multiplication step is over, and none when the end time is read
\* (stated for the valid configurations, size > 0 and runs >= 1).
C1_BarrierAfterEveryMatmul ==
    (IsAsync(device) /\ argv.size > 0 /\ argv.runs >= 1) => queued = 0

\* C2: with size > 0 and runs >= 1 there are exactly 2 warm-ups, all before the
\* first timed trial and none producing a sample; every timed trial appends one
\* time and one throughput; the summary returned has
\* runs = len(times_s) = len(gflops).
C2_WarmupsThenOneSamplePerTrial ==
    (IsSome(args) /\ argv.size > 0 /\ argv.runs >= 1) =>
        /\ warmups <= 2
        /\ warmups < 2 => (times = <<>> /\ gfs = <<>> /\ r = 0)
        /\ pc \in {"trial_start", "trial_matmul", "trial_end"} => warmups = 2
        /\ Len(times) = r /\ Len(gfs) = r /\ r <= argv.runs
        /\ IsSome(summary) =>
              /\ warmups = 2
              /\ Get(summary).runs = argv.runs
              /\ Len(Get(summary).times_s) = Get(summary).runs
              /\ Len(Get(summary).gflops) = Get(summary).runs

\* C2's case: a summary was returned for a run of several trials.
C2_Witness ==
    IsSome(summary) /\ argv.size > 0 /\ argv.runs >= 2

\* C3: in the summary returned, time_avg_s is the arithmetic mean of the
\* elapsed times, time_best_s their minimum and gflops_best the maximum of the
\* per-sample throughputs.
C3_SummaryStatistics ==
    IsSome(summary) =>
        LET sm == Get(summary)
            n == Len(sm.times_s)
        IN /\ n > 0
           /\ sm.time_avg_s.num * n = SumFrom(sm.times_s, 1) * sm.time_avg_s.den
           /\ sm.time_best_s \in Range(sm.times_s)
           /\ \A i \in 1..n : sm.time_best_s <= sm.times_s[i]
           /\ sm.gflops_best \in Range(sm.gflops)
           /\ \A i \in DOMAIN sm.gflops : ~RatLess(sm.gflops_best, sm.gflops[i])
           /\ \A i \in DOMAIN sm.gflops :
                 sm.gflops[i].num * sm.times_s[i] = 2 * sm.size * sm.size * sm.size * sm.gflops[i].den

\* C3's case: a summary over samples whose first is not the fastest.
C3_Witness ==
    /\ IsSome(summary)
    /\ Len(times) >= 2
    /\ times[2] < times[1]
    /\ argv.size > 0

\* C4: an invalid device name, a size <= 0 or a runs <= 0 is rejected before
\* any buffer is allocated: the buffers only ever exist for a valid
\* configuration.
C4_RejectedBeforeAllocation ==
    allocated =>
        /\ argv.device \in DeviceChoices
        /\ argv.size > 0
        /\ argv.runs > 0

\* C5: with zero samples (runs = 0) the summary signals a usage error before
\* the mean is computed: the division by len(times) = 0 is never attempted.
C5_NoDivisionByZeroSamples ==
    (argv.size > 0 /\ argv.runs = 0) =>
        ~(exc.type = "ZeroDivisionError" /\ exc.at = "time_avg_s")

\* C6: a file is written only after probe, workload and memory-stats query
\* have all completed, and a run that a failed allocation or multiplication
\* ended has written none of the three output files.
C6_NoFileUnlessAllCompleted ==
    /\ ~NoFiles => (IsSome(snap) /\ IsSome(summary) /\ IsSome(mem))
    /\ (pc = "exited" /\ exc.at \in {"alloc", "matmul"}) => NoFiles

\* C6's case: a multiplication failed after a sample had been collected.
C6_Witness ==
    /\ pc = "exited"
    /\ exc.at = "matmul"
    /\ Len(times) >= 1
    /\ NoFiles

\* The optional probes that can raise.
OptionalProbes == {"virtual_memory", "cpu_count", "get_gpus", "mps_available", "mem_get_info"}

\* C7: the failure of an optional probe never ends the run (stated for the
\* valid configurations, size > 0 and runs >= 1).
C7_ProbeFailureNeverAborts ==
    (pc = "exited" /\ argv.size > 0 /\ argv.runs >= 1) =>
        exc.at \notin OptionalProbes

\* C8: the throughput division is never attempted for a trial whose elapsed
\* time is 0 (stated for the valid configurations, size > 0 and runs >= 1).
C8_NoThroughputOfZeroDuration ==
    (argv.size > 0 /\ argv.runs >= 1) =>
        ~(exc.type = "ZeroDivisionError" /\ exc.at = "gflops")

\* C9: pick_device("auto") is cuda whenever CUDA is available, mps when CUDA is
\* not and MPS is, cpu exactly when neither is; any other preference is
\* returned as the device unchanged.
C9_PickDevicePriority ==
    device # "" =>
        LET pref == Get(args).device
        IN /\ (pref = "auto" /\ env.cuda) => device = "cuda"
           /\ (pref = "auto" /\ ~env.cuda /\ env.mps) => device = "mps"
           /\ pref = "auto" => (device = "cpu" <=> (~env.cuda /\ ~env.mps))
           /\ pref # "auto" => device = pref

\* C9's case: auto on a host where both accelerators are available.
C9_Witness ==
    /\ device = "cuda"
    /\ Get(args).device = "auto"
    /\ env.cuda
    /\ env.mps

\* C10 as stated: when torch cannot be imported the process exits non-zero
\* with its diagnostic on standard error, before any directory or file exists.
C10_FatalToStderr ==
    (~env.torch /\ pc = "exited") =>
        /\ exitCode # 0
        /\ FatalLine \in Range(stderr)
        /\ ~dirCreated
        /\ NoFiles

\* C10 as amended: when torch cannot be imported the process exits with a
\* non-zero code, its diagnostic is printed to standard output and nothing to
\* standard error, and no directory or file is ever created.
C10_FatalToStdout ==
    ~env.torch =>
        /\ pc \in {"import_torch", "exited"}
        /\ ~dirCreated
        /\ NoFiles
        /\ pc = "exited" =>
              /\ exitCode # 0
              /\ FatalLine \in Range(stdout)
              /\ stderr = <<>>

\* C10's case: the import of torch failed and the process has exited.
C10_Witness ==
    ~env.torch /\ pc = "exited"

\* The three output files of one invocation.
Suffixes == {"_summary.json", "_bench.csv", "_system.csv"}

\* C11: within one invocation the timestamp token is generated once (once
\* taken, stamp never changes) and every output path carries that token as its
\* prefix, however many seconds pass between ts() and the writes.
C11_OneStampForAllPaths ==
    /\ [](\A p \in DOMAIN files : IsSome(stamp) /\ p[1] = stamp /\ p[2] \in Suffixes)
    /\ [][IsSome(stamp) => stamp' = stamp]_vars

\* C11's case: all three files are written, and the wall clock has moved on
\* since the token was taken.
C11_Witness ==
    /\ pc = "done"
    /\ DOMAIN files = {<<stamp, sfx>> : sfx \in Suffixes}
    /\ utc > Get(stampSec)

\* C12: for runs = n >= 1 the per_run list of the JSON document and the rows
\* of the bench CSV each hold n entries, with run_idx 1..n in order, entry i
\* carrying the i-th measured time and throughput, and the CSV rows are the
\* per_run entries.
C12_PerRunRows ==
    argv.runs >= 1 =>
        /\ <<stamp, "_summary.json">> \in DOMAIN files =>
              LET per_run == Get(files[<<stamp, "_summary.json">>][2]).bench.per_run
              IN /\ Len(per_run) = argv.runs
                 /\ \A i \in 1..Len(per_run) :
                       /\ per_run[i].run_idx = i
                       /\ per_run[i].time_s = times[i]
                       /\ per_run[i].gflops = gfs[i]
        /\ <<stamp, "_bench.csv">> \in DOMAIN files =>
              LET rows == files[<<stamp, "_bench.csv">>][3]
                  per_run == Get(files[<<stamp, "_summary.json">>][2]).bench.per_run
              IN /\ Len(rows) = argv.runs
                 /\ \A i \in 1..Len(rows) :
                       /\ rows[i][1] = i
                       /\ rows[i][4] = times[i]
                       /\ rows[i][5] = gfs[i]
                       /\ rows[i] = <<per_run[i].run_idx, per_run[i].device,
                                      per_run[i].size, per_run[i].time_s,
                                      per_run[i].gflops>>

\* C12's case: both files are written for a run of two trials whose times
\* differ.
C12_Witness ==
    /\ {<<stamp, "_summary.json">>, <<stamp, "_bench.csv">>} \subseteq DOMAIN files
    /\ argv.runs = 2
    /\ times[1] # times[2]

\* C13: for a snapshot with n accelerator entries write_system_csv emits one
\* row per scalar field and one row per (entry index, entry field), each
\* accelerator row keyed with its position and carrying that entry's value,
\* and no two rows share a key.
C13_SystemCsvRows ==
    <<stamp, "_system.csv">> \in DOMAIN files =>
        LET rows == files[<<stamp, "_system.csv">>][3]
            gpus == Get(snap).gpus
            scalars == {SnapshotFields[i] : i \in DOMAIN SnapshotFields} \ {"gpus"}
            RowsOf(key) == {i \in DOMAIN rows : rows[i].key = key}
        IN /\ Len(rows) = Cardinality(scalars) + Len(gpus) * Len(GpuFields)
           /\ \A k \in scalars :
                 /\ Cardinality(RowsOf(<<k>>)) = 1
                 /\ \A i \in RowsOf(<<k>>) : rows[i].value = Get(snap)[k]
           /\ \A idx \in 0..(Len(gpus) - 1) : \A j \in DOMAIN GpuFields :
                 /\ Cardinality(RowsOf(<<"gpu", idx, GpuFields[j]>>)) = 1
                 /\ \A i \in RowsOf(<<"gpu", idx, GpuFields[j]>>) :
                       rows[i].value = gpus[idx + 1][GpuFields[j]]
           /\ \A i, j \in DOMAIN rows : i # j => rows[i].key # rows[j].key

\* C13's case: the system CSV of a snapshot with two accelerator entries.
C13_Witness ==
    /\ <<stamp, "_system.csv">> \in DOMAIN files
    /\ Len(Get(snap).gpus) = 2

\* C14 as stated: in every snapshot, if neither CUDA nor MPS is available the
\* gpus list is empty and both flags are false; if CUDA is available the list
\* holds only CUDA devices; the single MPS entry appears only when CUDA is
\* unavailable and MPS is available.
C14_OnlyCudaDevices ==
    IsSome(snap) =>
        LET sn == Get(snap)
        IN /\ (~env.cuda /\ ~env.mps) =>
                 (sn.gpus = <<>> /\ ~sn.cuda_available /\ ~sn.mps_available)
           /\ env.cuda => \A i \in DOMAIN sn.gpus : sn.gpus[i] = CudaInfo
           /\ \A i \in DOMAIN sn.gpus :
                 sn.gpus[i] = MpsInfo => (~env.cuda /\ env.mps /\ Len(sn.gpus) = 1)

\* C14 as amended: as stated, except that with CUDA available the list holds
\* the CUDA devices enumerated (at most device_count of them), followed by one
\* error placeholder entry exactly when the enumeration raised before its end.
C14_CudaDevicesThenErrorEntry ==
    IsSome(snap) =>
        LET sn == Get(snap)
            n == Len(sn.gpus)
        IN /\ (~env.cuda /\ ~env.mps) =>
                 (sn.gpus = <<>> /\ ~sn.cuda_available /\ ~sn.mps_available)
           /\ env.cuda =>
                 /\ sn.cuda_available
                 /\ \A i \in 1..(n - 1) : sn.gpus[i] = CudaInfo
                 /\ n > 0 => sn.gpus[n] \in {CudaInfo, ErrorInfo}
                 /\ Cardinality({i \in 1..n : sn.gpus[i] = CudaInfo}) <= env.cudaCount
                 /\ (\A i \in 1..n : sn.gpus[i] = CudaInfo) => n = env.cudaCount
           /\ \A i \in DOMAIN sn.gpus :
                 sn.gpus[i] = MpsInfo => (~env.cuda /\ env.mps /\ n = 1)
           /\ (~env.cuda /\ env.mps) => (sn.gpus = <<MpsInfo>> /\ sn.mps_available)

\* C14's case: CUDA is available and the enumeration raised after one device.
C14_Witness ==
    /\ IsSome(snap)
    /\ env.cuda
    /\ Get(snap).gpus = <<CudaInfo, ErrorInfo>>

\* C15: an invocation whose token is taken in another UTC second than an
\* earlier invocation's has another filename prefix, and none of its three
\* output paths is a file the earlier invocation left: only invocations within
\* the same second can collide.
C15_DistinctSecondsDistinctPrefixes ==
    \A k \in DOMAIN history :
        (/\ IsSome(stampSec)
         /\ IsSome(history[k].sec)
         /\ Get(stampSec) # Get(history[k].sec)) =>
            /\ stamp # history[k].stamp
            /\ \A sfx \in Suffixes : <<stamp, sfx>> \notin history[k].paths
            /\ \A p \in DOMAIN files : p[1] = stamp => p \notin history[k].paths

\* C15's case: the second invocation, its token taken a second after the
\* first one's, has written its three files beside the first one's three.
C15_Witness ==
    /\ Len(history) = 1
    /\ pc = "done"
    /\ IsSome(stampSec)
    /\ IsSome(history[1].sec)
    /\ Get(stampSec) # Get(history[1].sec)
    /\ Cardinality(history[1].paths) = 3
    /\ Cardinality(DOMAIN files) = 6

\* C16: whichever collectors' queries or shell-outs fail, when the audit ends
\* all eleven collectors were invoked in the fixed order and system_audit.csv
\* holds the header and all collected rows. (The case where writing the file
\* itself fails is left aside.)
C16_AllCollectorsThenCsv ==
    (audit_pc \in {"done", "exited"} /\ audit_exc # "open") =>
        /\ invoked = Collectors
        /\ out_file = Some(<<Header, audit_rows>>)

====
